---- MODULE Spec2Model ----
(***************************************************************************)
(* Model of the Image component (src/image/Image.tsx).                     *)
(*                                                                         *)
(* A state of the model is one committed render of one component           *)
(* instance: the props it was rendered with, the values of its useState    *)
(* cells, the passive effects whose dependencies changed in that render    *)
(* and are still to be flushed, and the request of the rendered <img>.     *)
(* An event step is a handler, with its batched state updates, followed by *)
(* the commit of the re-render.  Pending passive effects are flushed       *)
(* before the next event is handled.                                       *)
(***************************************************************************)
EXTENDS Integers, Sequences, FiniteSets, TLC

\* Number of distinct URLs a prop may hold.
NumUrl == 2

\* A prop that is not supplied (undefined).
Empty == 0

Urls == 1..NumUrl

MaybeUrl == {Empty} \cup Urls

Triggers == {"always", "hover"}

\* The srcset prop: a mapping type -> URL, in the mapping's own order.
SrcSets == {<< >>, << <<"image/webp", 1>>, <<"image/png", 2>> >>}

\* The locale configuration: with or without a replaceImageSrc function.
Locales == {"plain", "replace"}

VARIABLES
  src,                \* props.src
  fallback,           \* props.fallback
  lazy,               \* props.lazy
  overlayTrigger,     \* props.overlayTrigger
  srcset,             \* props.srcset
  local,              \* the locale configuration of useLocaleReceiver
  imageSrc,           \* useState(src)
  previewUrl,         \* the state of useImagePreviewUrl(imageSrc)
  shouldLoad,         \* useState(!lazy)
  isLoaded,           \* useState(false)
  hasError,           \* useState(false)
  shouldShowOverlay,  \* useState(!hasMouseEvent)
  observing,          \* the root element is registered with observe()
  requestPending,     \* the rendered <img> has a request without an answer
  dirty,              \* the passive effects to flush after this commit
  mounted,            \* the instance is mounted
  lastEvent,          \* the event that led to this commit
  calls               \* the callbacks the last handler invoked, in order

props == <<src, fallback, lazy, overlayTrigger, srcset, local>>

state == <<imageSrc, previewUrl, shouldLoad, isLoaded, hasError, shouldShowOverlay>>

vars == <<src, fallback, lazy, overlayTrigger, srcset, local, imageSrc,
          previewUrl, shouldLoad, isLoaded, hasError, shouldShowOverlay,
          observing, requestPending, dirty, mounted, lastEvent, calls>>

----------------------------------------------------------------------------
(* Pure pieces of the component. *)

\* isFunction(local.replaceImageSrc)
IsFunction(loc) == loc = "replace"

\* local.replaceImageSrc(props): an opaque pure function of the props; this
\* one sends every supplied source to one fixed URL.
ReplaceImageSrc(s) == IF s = Empty THEN Empty ELSE NumUrl

\* const tmpUrl = isFunction(local.replaceImageSrc) ? local.replaceImageSrc(props) : src;
TmpUrl(loc, s) == IF IsFunction(loc) THEN ReplaceImageSrc(s) ELSE s

\* if (tmpUrl === imageSrc && imageSrc) return; setImageSrc(tmpUrl);
ResolveImageSrc(tmpUrl, cur) ==
  IF tmpUrl = cur /\ cur # Empty THEN cur ELSE tmpUrl

\* useState(!lazy)
InitShouldLoad_Always(lz) == TRUE

InitShouldLoad(lz) == ~lz

\* handleLoadImage: setShouldLoad(true)
HandleLoadImage_Toggle(cur) == ~cur

HandleLoadImage(cur) == TRUE

\* the observe effect: if (!lazy || !imageRef?.current) return; observe(...)
ObserveEffect_Unguarded(lz, ref) == ref

ObserveEffect(lz, ref) == ~(~lz \/ ~ref)

\* observe(): the registration after onVisible has been called; releasing it
\* is left to the caller.
ObserveAfterTrigger(obs) == obs

\* imageRef.current after a commit: the root <div ref={imageRef}> is rendered
\* unconditionally.
ImageRefCurrent == TRUE

\* handleError: setHasError(true); if (fallback) { ...; setHasError(false); }
HandleErrorHasError_NoReset(fb) == TRUE

HandleErrorHasError(fb) == IF fb # Empty THEN FALSE ELSE TRUE

\* handleError: if (fallback) { setImageSrc(fallback); ... }
HandleErrorImageSrc(fb, cur) == IF fb # Empty THEN fb ELSE cur

\* handleError: onError?.({ e })
HandleErrorCalls_OnlyTerminal(fb) == IF fb # Empty THEN << >> ELSE <<"onError">>

HandleErrorCalls(fb) == <<"onError">>

\* handleLoad: onLoad?.({ e })
HandleLoadCalls == <<"onLoad">>

\* the error-clear effect: if (hasError && previewUrl) setHasError(false);
ClearEffect(err, preview) == IF err /\ preview # Empty THEN FALSE ELSE err

\* const hasMouseEvent = overlayTrigger === 'hover';
HasMouseEvent(trigger) == trigger = "hover"

\* useState(!hasMouseEvent)
InitShouldShowOverlay(trigger) == ~HasMouseEvent(trigger)

\* handleToggleOverlay: setShouldShowOverlay(overlay)
HandleToggleOverlay_Stuck(overlay) == TRUE

HandleToggleOverlay(overlay) == overlay

----------------------------------------------------------------------------
(* The render plan of a committed state. *)

\* {!(hasError || !shouldLoad) && ( <Fragment> ... )}
ContentShown == ~(hasError \/ ~shouldLoad)

\* {!(hasError || !shouldLoad) && !isLoaded && ( <div ...image__loading> )}
LoadingShown_Unnested == ~isLoaded

LoadingShown == ContentShown /\ ~(hasError \/ ~shouldLoad) /\ ~isLoaded

\* {hasError && ( <div ...image__error> )}
ErrorShown == hasError

\* srcset && Object.keys(srcset).length
MultiSource == Len(srcset) # 0

\* {...(hasMouseEvent ? { onMouseEnter: ..., onMouseLeave: ... } : null)}
MouseEventsWired == HasMouseEvent(overlayTrigger)

\* renderImage() is reached directly, or through {props.src && renderImage()}
ImgRendered == ContentShown /\ (MultiSource => src # Empty)

\* const url = typeof imageSrc === 'string' ? imageSrc : previewUrl;
Url == IF imageSrc # Empty THEN imageSrc ELSE previewUrl

\* the src attribute of the <img> in the document, Empty when there is none
ImgAttr == IF ImgRendered THEN Url ELSE Empty

\* <source key={url} type={type} srcSet={url} />
SourceEntry(pair) == <<"source", pair[1], pair[2]>>

\* <img src={url} ... />: the plain entry, without a type
ImgEntry == <<"img", "", Url>>

\* renderImageSrcset: Object.entries(props.srcset).map(...), then
\* {props.src && renderImage()}
RenderImageSrcset(set, s) ==
  [i \in 1..Len(set) |-> SourceEntry(set[i])]
    \o (IF s # Empty THEN <<ImgEntry>> ELSE << >>)

\* srcset && Object.keys(srcset).length ? renderImageSrcset() : renderImage()
SourceMode == IF MultiSource THEN "multi" ELSE "single"

\* the entries of the content region, in document order
RenderPlan ==
  IF SourceMode = "multi" THEN RenderImageSrcset(srcset, src) ELSE <<ImgEntry>>

\* The <img> answers every request with one load or one error event.  A
\* commit that gives the element a new src attribute starts a request; a
\* commit without an element, or without a src attribute, leaves none.
\* consumed: the handler of this step ran on the answer of the request.
NextRequest(consumed) ==
  requestPending' = IF ImgAttr' = Empty THEN FALSE
                    ELSE IF ImgAttr' # ImgAttr THEN TRUE
                    ELSE requestPending /\ ~consumed

----------------------------------------------------------------------------

\* The first committed render; every effect is still to run.
Init ==
  /\ src \in MaybeUrl
  /\ fallback \in MaybeUrl
  /\ lazy \in BOOLEAN
  /\ overlayTrigger \in Triggers
  /\ srcset \in SrcSets
  /\ local \in Locales
  /\ imageSrc = src
  /\ previewUrl = Empty
  /\ shouldLoad = InitShouldLoad(lazy)
  /\ isLoaded = FALSE
  /\ hasError = FALSE
  /\ shouldShowOverlay = InitShouldShowOverlay(overlayTrigger)
  /\ observing = FALSE
  /\ requestPending = (ImgAttr # Empty)
  /\ dirty = {"resolve", "observe", "clear"}
  /\ mounted = TRUE
  /\ lastEvent = "create"
  /\ calls = << >>

\* An event is handled by a mounted instance whose effects have been flushed.
Idle == mounted /\ dirty = {}

\* The passive effects of the last commit, then the commit of their updates.
FlushEffects ==
  /\ mounted
  /\ dirty # {}
  /\ imageSrc' = IF "resolve" \in dirty
                 THEN ResolveImageSrc(TmpUrl(local, src), imageSrc)
                 ELSE imageSrc
  /\ observing' = IF "observe" \in dirty
                  THEN ObserveEffect(lazy, ImageRefCurrent)
                  ELSE observing
  /\ hasError' = IF "clear" \in dirty
                 THEN ClearEffect(hasError, previewUrl)
                 ELSE hasError
  /\ dirty' = {}
  /\ lastEvent' = "effects"
  /\ calls' = << >>
  /\ UNCHANGED <<props, previewUrl, shouldLoad, isLoaded, shouldShowOverlay, mounted>>
  /\ NextRequest(FALSE)

\* The <img> reports a successful load: handleLoad.
Load ==
  /\ Idle
  /\ requestPending
  /\ isLoaded' = TRUE
  /\ calls' = HandleLoadCalls
  /\ lastEvent' = "load"
  /\ UNCHANGED <<props, imageSrc, previewUrl, shouldLoad, hasError,
                 shouldShowOverlay, observing, dirty, mounted>>
  /\ NextRequest(TRUE)

\* The <img> reports a failure: handleError.
Error ==
  /\ Idle
  /\ requestPending
  /\ hasError' = HandleErrorHasError(fallback)
  /\ imageSrc' = HandleErrorImageSrc(fallback, imageSrc)
  /\ calls' = HandleErrorCalls(fallback)
  /\ lastEvent' = "error"
  /\ UNCHANGED <<props, previewUrl, shouldLoad, isLoaded, shouldShowOverlay,
                 observing, dirty, mounted>>
  /\ NextRequest(TRUE)

\* The observer reports that the root element intersects: handleLoadImage.
Intersect ==
  /\ Idle
  /\ observing
  /\ shouldLoad' = HandleLoadImage(shouldLoad)
  /\ observing' = ObserveAfterTrigger(observing)
  /\ lastEvent' = "intersect"
  /\ calls' = << >>
  /\ UNCHANGED <<props, imageSrc, previewUrl, isLoaded, hasError,
                 shouldShowOverlay, dirty, mounted>>
  /\ NextRequest(FALSE)

\* onMouseEnter: () => handleToggleOverlay(true)
MouseEnter_ResetsLoaded ==
  /\ Idle
  /\ HasMouseEvent(overlayTrigger)
  /\ shouldShowOverlay' = HandleToggleOverlay(TRUE)
  /\ isLoaded' = FALSE
  /\ lastEvent' = "enter"
  /\ calls' = << >>
  /\ UNCHANGED <<props, imageSrc, previewUrl, shouldLoad, hasError,
                 observing, dirty, mounted>>
  /\ NextRequest(FALSE)

MouseEnter ==
  /\ Idle
  /\ HasMouseEvent(overlayTrigger)
  /\ shouldShowOverlay' = HandleToggleOverlay(TRUE)
  /\ lastEvent' = "enter"
  /\ calls' = << >>
  /\ UNCHANGED <<props, imageSrc, previewUrl, shouldLoad, isLoaded, hasError,
                 observing, dirty, mounted>>
  /\ NextRequest(FALSE)

\* onMouseLeave: () => handleToggleOverlay(false)
MouseLeave ==
  /\ Idle
  /\ HasMouseEvent(overlayTrigger)
  /\ shouldShowOverlay' = HandleToggleOverlay(FALSE)
  /\ lastEvent' = "leave"
  /\ calls' = << >>
  /\ UNCHANGED <<props, imageSrc, previewUrl, shouldLoad, isLoaded, hasError,
                 observing, dirty, mounted>>
  /\ NextRequest(FALSE)

\* useImagePreviewUrl: the preview of the current source becomes available.
PreviewResolved ==
  /\ Idle
  /\ imageSrc # Empty
  /\ previewUrl # imageSrc
  /\ previewUrl' = imageSrc
  /\ dirty' = {"clear"}
  /\ lastEvent' = "preview"
  /\ calls' = << >>
  /\ UNCHANGED <<props, imageSrc, shouldLoad, isLoaded, hasError,
                 shouldShowOverlay, observing, mounted>>
  /\ NextRequest(FALSE)

\* The parent renders the component with a new src.
SetSrc ==
  /\ Idle
  /\ \E s \in MaybeUrl \ {src} : src' = s
  /\ dirty' = {"resolve"}
  /\ lastEvent' = "src"
  /\ calls' = << >>
  /\ UNCHANGED <<fallback, lazy, overlayTrigger, srcset, local, state,
                 observing, mounted>>
  /\ NextRequest(FALSE)

\* The parent renders the component with a new fallback.
SetFallback ==
  /\ Idle
  /\ \E f \in MaybeUrl \ {fallback} : fallback' = f
  /\ dirty' = {"resolve"}
  /\ lastEvent' = "fallback"
  /\ calls' = << >>
  /\ UNCHANGED <<src, lazy, overlayTrigger, srcset, local, state,
                 observing, mounted>>
  /\ NextRequest(FALSE)

\* The parent renders the component with the other value of lazy.
SetLazy ==
  /\ Idle
  /\ lazy' = ~lazy
  /\ dirty' = {"resolve", "observe"}
  /\ lastEvent' = "lazy"
  /\ calls' = << >>
  /\ UNCHANGED <<src, fallback, overlayTrigger, srcset, local, state,
                 observing, mounted>>
  /\ NextRequest(FALSE)

\* The parent renders the component with the other overlayTrigger.
SetOverlayTrigger ==
  /\ Idle
  /\ \E t \in Triggers \ {overlayTrigger} : overlayTrigger' = t
  /\ dirty' = {"resolve"}
  /\ lastEvent' = "trigger"
  /\ calls' = << >>
  /\ UNCHANGED <<src, fallback, lazy, srcset, local, state, observing, mounted>>
  /\ NextRequest(FALSE)

\* The parent renders again: the props object is new, its values are not.
ParentRerender ==
  /\ Idle
  /\ dirty' = {"resolve"}
  /\ lastEvent' = "rerender"
  /\ calls' = << >>
  /\ UNCHANGED <<props, state, observing, mounted>>
  /\ NextRequest(FALSE)

\* The instance is destroyed: the cleanup of the observe effect runs and the
\* <img> leaves the document.
Unmount ==
  /\ mounted
  /\ mounted' = FALSE
  /\ observing' = FALSE
  /\ requestPending' = FALSE
  /\ dirty' = {}
  /\ lastEvent' = "unmount"
  /\ calls' = << >>
  /\ UNCHANGED <<props, state>>

Next ==
  \/ FlushEffects
  \/ Load
  \/ Error
  \/ Intersect
  \/ MouseEnter
  \/ MouseLeave
  \/ PreviewResolved
  \/ SetSrc
  \/ SetFallback
  \/ SetLazy
  \/ SetOverlayTrigger
  \/ ParentRerender
  \/ Unmount

Spec == Init /\ [][Next]_vars

TypeOK ==
  /\ src \in MaybeUrl /\ fallback \in MaybeUrl /\ imageSrc \in MaybeUrl
  /\ previewUrl \in MaybeUrl
  /\ dirty \subseteq {"resolve", "observe", "clear"}

----------------------------------------------------------------------------
(* Properties. *)

NotStarted == ~isLoaded /\ ~hasError

\* C1: in the state right after any change of imageSrc, LoadState is
\* NOT_STARTED: neither isLoaded nor hasError is set.
C1_ResetOnSourceChange ==
  [][imageSrc' # imageSrc => NotStarted']_vars

\* C2: with src = A and fallback = B, both supplied and different, the error
\* notification that arrives while the fallback is the effective source
\* leaves hasError set and the effective source equal to B.
C2_FallbackFailureIsErrored ==
  [][(/\ lastEvent' = "error"
      /\ ~IsFunction(local)
      /\ fallback # Empty
      /\ src \notin {Empty, fallback}
      /\ imageSrc = fallback)
     => (hasError' /\ imageSrc' = fallback)]_vars

\* The fallback has been substituted for src and its request has failed: the
\* effects of the last change of src have run, the <img> shows the fallback,
\* its request is answered, and no load was ever reported.
FallbackFailed ==
  /\ ~IsFunction(local)
  /\ lastEvent # "src"
  /\ fallback # Empty
  /\ src \notin {Empty, fallback}
  /\ imageSrc = fallback
  /\ ImgAttr = fallback
  /\ ~requestPending
  /\ ~isLoaded

\* C3: once the fallback has been substituted and has failed, no step that
\* leaves src unchanged changes the effective source or starts a request.
C3_NoRetryAfterFallbackFailure ==
  [][(FallbackFailed /\ src' = src)
     => (imageSrc' = imageSrc /\ ~requestPending')]_vars

\* C4: with a fallback configured, an error notification substitutes the
\* fallback, leaves LoadState NOT_STARTED, invokes onError and requests the
\* fallback; the load notification that follows sets isLoaded and invokes
\* onLoad; no commit has hasError set.
C4_FallbackSuccess ==
  /\ [][(fallback # Empty /\ ~hasError) => ~hasError']_vars
  /\ [][(lastEvent' = "error" /\ fallback # Empty)
        => /\ imageSrc' = fallback
           /\ ~hasError'
           /\ (~isLoaded => ~isLoaded')
           /\ calls' = <<"onError">>
           /\ (ImgAttr # fallback => requestPending')]_vars
  /\ [][lastEvent' = "load"
        => /\ isLoaded'
           /\ imageSrc' = imageSrc
           /\ hasError' = hasError
           /\ calls' = <<"onLoad">>]_vars

C4_Witness ==
  /\ lastEvent = "load"
  /\ local = "plain"
  /\ src \notin {Empty, fallback}
  /\ imageSrc = fallback
  /\ isLoaded /\ ~hasError
  /\ calls = <<"onLoad">>

\* C5: an error notification invokes onError exactly once, a load
\* notification invokes onLoad exactly once, and no other event invokes a
\* callback.
C5_CallbacksOncePerNotification ==
  /\ lastEvent = "error" => calls = <<"onError">>
  /\ lastEvent = "load" => calls = <<"onLoad">>
  /\ lastEvent \notin {"error", "load"} => calls = << >>

C5_Witness ==
  /\ lastEvent = "error"
  /\ fallback # Empty
  /\ imageSrc = fallback
  /\ calls = <<"onError">>

\* C6: an instance created with lazy set has shouldLoad unset, and only an
\* intersection sets it; while it is unset no <img> is rendered, no request
\* is open, no load or error notification is handled, no callback is invoked
\* and LoadState is NOT_STARTED.
C6_NeverVisibleNeverLoads ==
  /\ (lazy => ~shouldLoad)
  /\ [](~shouldLoad
        => /\ ~ImgRendered
           /\ ~requestPending
           /\ NotStarted
           /\ lastEvent \notin {"load", "error"}
           /\ calls = << >>)
  /\ [][(~shouldLoad /\ lastEvent' # "intersect") => ~shouldLoad']_vars

C6_Witness ==
  /\ lazy /\ observing /\ ~shouldLoad
  /\ lastEvent = "enter"
  /\ imageSrc \notin {Empty, src}
  /\ previewUrl # Empty

\* C7: once shouldLoad is set it stays set under every event, and an
\* intersection callback that finds it set changes no state cell.
C7_VisibilityMonotone ==
  /\ [][shouldLoad => shouldLoad']_vars
  /\ [][(shouldLoad /\ lastEvent' = "intersect") => UNCHANGED state]_vars

C7_Witness ==
  /\ lastEvent = "intersect"
  /\ shouldLoad /\ isLoaded /\ lazy

\* C8: an instance created with lazy unset has shouldLoad set in its first
\* render, for all other props, and while lazy is unset and the observe
\* effect has run nothing is registered with the observer.
C8_EagerIsReady ==
  /\ (lastEvent = "create" /\ ~lazy) => (shouldLoad /\ ~observing)
  /\ (~lazy /\ "observe" \notin dirty) => ~observing

C8_Witness ==
  /\ ~lazy /\ shouldLoad /\ ~observing
  /\ lastEvent = "effects"
  /\ ~isLoaded /\ previewUrl = Empty

\* C9: a run of the resolve effect after the parent rendered again with the
\* same props, so with the src of its previous run, and with no
\* replaceImageSrc leaves the effective source as it was and does not unset
\* isLoaded.
C9_ReResolutionStable ==
  [][(/\ lastEvent = "rerender"
      /\ lastEvent' = "effects"
      /\ ~IsFunction(local))
     => (imageSrc' = imageSrc /\ (isLoaded => isLoaded'))]_vars

\* C10: with overlayTrigger = hover, shouldShowOverlay is unset in the first
\* render, set by a pointer-enter, unset by a pointer-leave, and left as it
\* is by every other event.
C10_HoverOverlay ==
  /\ []((lastEvent = "create" /\ HasMouseEvent(overlayTrigger))
        => ~shouldShowOverlay)
  /\ [][HasMouseEvent(overlayTrigger)
        => /\ lastEvent' = "enter" => shouldShowOverlay'
           /\ lastEvent' = "leave" => ~shouldShowOverlay'
           /\ lastEvent' \notin {"enter", "leave"}
                => shouldShowOverlay' = shouldShowOverlay]_vars

C10_Witness ==
  /\ HasMouseEvent(overlayTrigger)
  /\ shouldShowOverlay
  /\ lastEvent = "error"
  /\ isLoaded

\* C11: in every committed state of a mounted instance whose overlayTrigger
\* is not hover, shouldShowOverlay is set and the pointer handlers are not
\* wired.
C11_AlwaysOverlay ==
  (mounted /\ ~HasMouseEvent(overlayTrigger))
    => (shouldShowOverlay /\ ~MouseEventsWired)

\* C12: in every committed state the error region is shown with neither the
\* loading indicator nor the content region; the content region is shown iff
\* hasError is unset and shouldLoad is set, the loading indicator iff the
\* content region is shown and isLoaded is unset, the error region iff
\* hasError is set.
C12_RegionsExclusive ==
  /\ ~(ErrorShown /\ LoadingShown)
  /\ ~(ErrorShown /\ ContentShown)
  /\ ContentShown <=> (~hasError /\ shouldLoad)
  /\ LoadingShown <=> (ContentShown /\ ~isLoaded)
  /\ ErrorShown <=> hasError

C12_Witness ==
  /\ ErrorShown /\ ~isLoaded /\ shouldLoad
  /\ lastEvent = "error"
  /\ imageSrc # Empty

\* C13: no commit that changes the effective source to a new URL keeps a flag of the
\* previous source: hasError or isLoaded set before the change and still set
\* after it.
C13_SourceAndLoadStateAtomic ==
  [][(imageSrc' # imageSrc /\ imageSrc' # Empty)
     => (~(hasError /\ hasError') /\ ~(isLoaded /\ isLoaded'))]_vars

\* The source entries of the plan are the pairs of srcset, in its order.
SourcesInMappingOrder ==
  \A i \in 1..Len(srcset) :
    /\ i <= Len(RenderPlan)
    /\ RenderPlan[i] = <<"source", srcset[i][1], srcset[i][2]>>

\* C14: the plan is multi-source iff srcset is not empty; a
\* multi-source plan is the source entries in mapping order followed by the
\* plain image entry; a single plan is the plain image entry alone.
C14_PlanEndsWithImage ==
  ContentShown =>
    /\ SourceMode = "multi" <=> srcset # << >>
    /\ SourceMode = "multi" =>
         /\ SourcesInMappingOrder
         /\ Len(RenderPlan) = Len(srcset) + 1
         /\ RenderPlan[Len(RenderPlan)] = <<"img", "", Url>>
    /\ SourceMode = "single" => RenderPlan = << <<"img", "", Url>> >>

\* C15: without a fallback an error notification sets hasError; hasError is
\* unset only by the error-clear effect run for a new, non-empty previewUrl
\* of the effective source, and that commit has LoadState NOT_STARTED and
\* requests the image again; a new previewUrl while hasError is unset, or an
\* empty one, leaves hasError as it is.
C15_ErroredUntilPreview ==
  /\ [][(lastEvent' = "error" /\ fallback = Empty) => hasError']_vars
  /\ [][(hasError /\ ~hasError')
        => /\ lastEvent = "preview" /\ lastEvent' = "effects"
           /\ previewUrl # Empty /\ previewUrl = imageSrc
           /\ NotStarted'
           /\ (ImgAttr' # Empty => requestPending')]_vars
  /\ [][(~hasError /\ lastEvent' \in {"preview", "effects"}) => ~hasError']_vars
  /\ [][(hasError /\ previewUrl' = Empty) => hasError']_vars

\* C16: a registration with the observer is held only by a mounted instance
\* whose shouldLoad is unset and whose lazy is set (or whose observe effect
\* is still to run after a change of lazy).
C16_ObservationReleased ==
  observing => (mounted /\ ~shouldLoad /\ (lazy \/ "observe" \in dirty))

\* C17: in no committed state are isLoaded and hasError both set.
C17_LoadStateSingleValued ==
  ~(isLoaded /\ hasError)

\* C18: a pointer-enter or pointer-leave leaves imageSrc, previewUrl,
\* shouldLoad, isLoaded and hasError as they are; an intersection, load,
\* error, preview, source-change or effect step leaves shouldShowOverlay as
\* it is.
C18_OverlayIndependent ==
  /\ [][lastEvent' \in {"enter", "leave"}
        => UNCHANGED <<imageSrc, previewUrl, shouldLoad, isLoaded, hasError>>]_vars
  /\ [][lastEvent' \in {"intersect", "load", "error", "preview", "src", "effects"}
        => UNCHANGED shouldShowOverlay]_vars

C18_Witness ==
  /\ lastEvent = "enter"
  /\ shouldShowOverlay
  /\ isLoaded /\ shouldLoad /\ lazy
  /\ imageSrc = fallback

\* C19: in every committed state of a mounted instance rendered with neither
\* src nor srcset (the effects of the last change of src have run), the
\* effective source is empty and neither the <img>, nor the loading
\* indicator, nor the error region is rendered.
C19_NoSourceOnlyPlaceholder ==
  (mounted /\ src = Empty /\ srcset = << >> /\ lastEvent # "src")
    => (imageSrc = Empty /\ ~ImgRendered /\ ~LoadingShown /\ ~ErrorShown)

====
